---------------------------- MODULE Spec2Model ----------------------------
(***************************************************************************)
(* Model of port-conflict-resolver's PortResolver (src/src/resolver.js):   *)
(* the bind probe, the search for a free port, the framework-aware search  *)
(* and kill-and-verify, run against an operating system whose socket table *)
(* and processes change on their own.                                      *)
(*                                                                         *)
(* Every async method is cut at its awaits: one action per stretch of code *)
(* between two suspension points.  `pc` is the position of the running     *)
(* call, `loc` holds its local variables under the names the source gives  *)
(* them, `log` is a history of what the call did to the outside world.     *)
(***************************************************************************)
EXTENDS Integers, Sequences, FiniteSets, TLC

VARIABLES
    platform,   \* this.platform                         (resolver.js:9)
    denied,     \* ports whose bind the OS refuses the caller (EACCES)
    owner,      \* OS socket table: port -> pid of the listener, Null if none
    procs,      \* OS process table: pid -> [state, ignoresTerm, permitted]
    server,     \* port held by the probe's own net.Server, Null if none
    call,       \* the method invoked by the caller, with its arguments
    pc,         \* position of the running call
    loc,        \* local variables of the running call
    log,        \* history: probes, lookups, prompts, signals of this call
    ret,        \* how the call ended: returned value or thrown error
    envLeft     \* changes the environment may still make

vars == <<platform, denied, owner, procs, server, call, pc, loc, log, ret, envLeft>>

-----------------------------------------------------------------------------
(* Program constants *)

MaxPort == 65535
DefaultBase == 3000
DefaultMaxAttempts == 100
Null == 0

(* Bounds of the model *)

Window == 3            \* ports DefaultBase .. DefaultBase+Window-1 may be bound
MaxAttemptsBound == 4  \* maxAttempts ranges over 0 .. MaxAttemptsBound
MaxPid == 2            \* processes 1 .. MaxPid
MaxEnv == 1            \* environment changes per call
MaxPorts == 2          \* length of the list given to killPorts

Pids == 1..MaxPid
Platforms == {"win32", "darwin", "linux"}
LowWindow == DefaultBase..(DefaultBase + Window - 1)
HighWindow == (MaxPort - 1)..MaxPort
FindPorts == LowWindow \cup HighWindow

-----------------------------------------------------------------------------
(* Helpers on sequences *)

Range(s) == {s[n] : n \in 1..Len(s)}

(* The frame of locals before any method has assigned them. *)
NoLoc ==
    [startPort |-> Null, maxAttempts |-> 0, i |-> 0, port |-> Null,
     available |-> FALSE, cont |-> "", preferredPorts |-> <<>>, k |-> 0,
     force |-> FALSE, pid |-> Null, processName |-> "", confirmed |-> FALSE,
     stillInUse |-> Null, result |-> <<>>, ports |-> <<>>, idx |-> 0,
     results |-> <<>>]

NoRet == [kind |-> "none", val |-> Null]

Event(ev, port, pid, ok) ==
    [ev |-> ev, port |-> port, pid |-> pid, ok |-> ok, idx |-> loc.idx]

Owner(p) == IF p \in DOMAIN owner THEN owner[p] ELSE Null

-----------------------------------------------------------------------------
(* isPortAvailable: net.createServer(), listen(port, '127.0.0.1') *)

\* The error code server.listen raises, "none" when the bind succeeds.
ListenError(p) ==
    IF p \in denied THEN "EACCES"
    ELSE IF Owner(p) # Null \/ server = p THEN "EADDRINUSE"
    ELSE "none"

\* An 'error' handler that takes only EADDRINUSE for "in use".
OnErrorOnlyAddrInUse(code) ==
    IF code = "EADDRINUSE" THEN FALSE ELSE TRUE

\* server.once('error'): both branches resolve false.
OnError(code) ==
    IF code = "EADDRINUSE" THEN FALSE ELSE FALSE

\* server.listen(port): either the 'error' handler resolves the probe, or
\* the socket is bound and the 'listening' handler starts closing it.
Listen ==
    /\ pc = "listen"
    /\ LET code == ListenError(loc.port) IN
        IF code # "none"
        THEN /\ loc' = [loc EXCEPT !.available = OnError(code)]
             /\ log' = Append(log, Event("probe", loc.port, Null, OnError(code)))
             /\ pc' = loc.cont
             /\ UNCHANGED server
        ELSE /\ server' = loc.port
             /\ pc' = "close"
             /\ UNCHANGED <<loc, log>>
    /\ UNCHANGED <<platform, denied, owner, procs, call, ret, envLeft>>

\* A 'listening' handler that resolves true without closing the server.
CloseForgotten ==
    /\ pc = "close"
    /\ loc' = [loc EXCEPT !.available = TRUE]
    /\ log' = Append(log, Event("probe", loc.port, Null, TRUE))
    /\ pc' = loc.cont
    /\ UNCHANGED <<platform, denied, owner, procs, server, call, ret, envLeft>>

\* server.close(() => resolve(true)): the socket is released, then the
\* probe resolves true.
Close ==
    /\ pc = "close"
    /\ server' = Null
    /\ loc' = [loc EXCEPT !.available = TRUE]
    /\ log' = Append(log, Event("probe", loc.port, Null, TRUE))
    /\ pc' = loc.cont
    /\ UNCHANGED <<platform, denied, owner, procs, call, ret, envLeft>>

-----------------------------------------------------------------------------
(* findAvailablePort(startPort, maxAttempts) *)

\* A search that steps by two instead of one.
CandidateSkipping(startPort, i) == startPort + 2 * i

\* The candidate of loop round i.
Candidate(startPort, i) == startPort + i

\* A loop that makes one round too many.
LoopOneMore(startPort, maxAttempts, i) ==
    /\ i <= maxAttempts
    /\ ~(Candidate(startPort, i) > MaxPort)

\* A loop that does not stop at the last port number.
LoopPastMaxPort(startPort, maxAttempts, i) ==
    i < maxAttempts

\* The loop runs while i < maxAttempts and the candidate is a port number.
LoopContinues(startPort, maxAttempts, i) ==
    /\ i < maxAttempts
    /\ ~(Candidate(startPort, i) > MaxPort)

\* throw new Error(`Could not find available port within ${maxAttempts} attempts`)
ExhaustedError(maxAttempts) ==
    [kind |-> "throw", val |-> <<"Could not find available port within", maxAttempts, "attempts">>]

Return(v) == [kind |-> "return", val |-> v]

\* Entry: the probe of startPort.
FindAvailablePort ==
    /\ pc = "start"
    /\ call.name = "findAvailablePort"
    /\ loc' = [loc EXCEPT !.startPort = call.startPort,
                          !.maxAttempts = call.maxAttempts,
                          !.port = call.startPort,
                          !.cont = "fap_first"]
    /\ pc' = "listen"
    /\ UNCHANGED <<platform, denied, owner, procs, server, call, log, ret, envLeft>>

\* if (await this.isPortAvailable(startPort)) return startPort; else i = 1
FAP_First ==
    /\ pc = "fap_first"
    /\ IF loc.available
       THEN /\ ret' = Return(loc.startPort)
            /\ pc' = "done"
            /\ UNCHANGED loc
       ELSE /\ loc' = [loc EXCEPT !.i = 1]
            /\ pc' = "fap_loop"
            /\ UNCHANGED ret
    /\ UNCHANGED <<platform, denied, owner, procs, server, call, log, envLeft>>

\* Loop head: the next candidate is probed, or the search gives up.
FAP_Loop ==
    /\ pc = "fap_loop"
    /\ IF LoopContinues(loc.startPort, loc.maxAttempts, loc.i)
       THEN /\ loc' = [loc EXCEPT !.port = Candidate(loc.startPort, loc.i),
                                 !.cont = "fap_next"]
            /\ pc' = "listen"
            /\ UNCHANGED ret
       ELSE /\ ret' = ExhaustedError(loc.maxAttempts)
            /\ pc' = "done"
            /\ UNCHANGED loc
    /\ UNCHANGED <<platform, denied, owner, procs, server, call, log, envLeft>>

\* if (available) return port; else i++
FAP_Next ==
    /\ pc = "fap_next"
    /\ IF loc.available
       THEN /\ ret' = Return(loc.port)
            /\ pc' = "done"
            /\ UNCHANGED loc
       ELSE /\ loc' = [loc EXCEPT !.i = loc.i + 1]
            /\ pc' = "fap_loop"
            /\ UNCHANGED ret
    /\ UNCHANGED <<platform, denied, owner, procs, server, call, log, envLeft>>

-----------------------------------------------------------------------------
(* isPortAvailable(port) called by the user, and called again *)

MaxProbes == 2         \* calls of isPortAvailable in a row

\* Entry: the promise is created and server.listen is called.
IsPortAvailable ==
    /\ pc = "start"
    /\ call.name = "isPortAvailable"
    /\ loc' = [loc EXCEPT !.port = call.port, !.cont = "ipa_resolve"]
    /\ pc' = "listen"
    /\ UNCHANGED <<platform, denied, owner, procs, server, call, log, ret, envLeft>>

\* resolve(true) / resolve(false) reaches the caller.
IPA_Resolve ==
    /\ pc = "ipa_resolve"
    /\ ret' = Return(loc.available)
    /\ pc' = "done"
    /\ UNCHANGED <<platform, denied, owner, procs, server, call, loc, log, envLeft>>

\* The caller probes again, as getUsedPortsInRange and the CLI's resolve
\* command do: a new call with fresh locals.
ProbeAgain ==
    /\ pc = "done"
    /\ call.name = "isPortAvailable"
    /\ Len(log) < MaxProbes
    /\ \E p \in DOMAIN owner :
        call' = [call EXCEPT !.port = p]
    /\ loc' = NoLoc
    /\ ret' = NoRet
    /\ pc' = "start"
    /\ UNCHANGED <<platform, denied, owner, procs, server, log, envLeft>>

-----------------------------------------------------------------------------
(* findPortForFramework(framework) *)

getFrameworkSuggestions ==
    ("React/Vite" :> <<5173, 5174, 5175, 5180>>) @@
    ("Next.js" :> <<3000, 3001, 3002, 3003>>) @@
    ("Create React App" :> <<3000, 3001, 3002>>) @@
    ("Vue CLI/Vite" :> <<5173, 5174, 5175, 8080>>) @@
    ("Angular" :> <<4200, 4201>>) @@
    ("Express" :> <<3000, 4000, 5000, 8080>>) @@
    ("FastAPI" :> <<8000, 8001, 8080>>) @@
    ("Flask" :> <<5000, 5001, 8000>>) @@
    ("Django" :> <<8000, 8001, 8080>>) @@
    ("Ruby on Rails" :> <<3000, 5000>>) @@
    ("Laravel" :> <<8000, 8001>>) @@
    ("Node.js" :> <<3000, 4000, 5000, 8080>>) @@
    ("NestJS" :> <<3000, 4000, 5000>>) @@
    ("Gatsby" :> <<8000, 8001>>) @@
    ("Hugo" :> <<1313, 1314>>) @@
    ("Spring Boot" :> <<8080, 8081, 8443>>) @@
    ("ASP.NET Core" :> <<5000, 5001, 8080>>) @@
    ("Docker" :> <<2375, 2376, 5000, 8080>>) @@
    ("PostgreSQL" :> <<5432, 5433>>) @@
    ("MySQL" :> <<3306, 3307>>) @@
    ("MongoDB" :> <<27017, 27018, 27019>>) @@
    ("Redis" :> <<6379, 6380>>) @@
    ("Elasticsearch" :> <<9200, 9300>>)

Frameworks == DOMAIN getFrameworkSuggestions

\* suggestions[framework] || [3000, 4000, 5000, 8000]
PreferredPorts(framework) ==
    IF framework \in Frameworks
    THEN getFrameworkSuggestions[framework]
    ELSE <<3000, 4000, 5000, 8000>>

\* Entry: look the framework up.
FindPortForFramework ==
    /\ pc = "start"
    /\ call.name = "findPortForFramework"
    /\ loc' = [loc EXCEPT !.preferredPorts = PreferredPorts(call.framework),
                          !.k = 1]
    /\ pc' = "fpf_loop"
    /\ UNCHANGED <<platform, denied, owner, procs, server, call, log, ret, envLeft>>

\* for (const port of preferredPorts): probe the next preferred port; after
\* the last one, return await this.findAvailablePort(3000).
FPF_Loop ==
    /\ pc = "fpf_loop"
    /\ IF loc.k <= Len(loc.preferredPorts)
       THEN loc' = [loc EXCEPT !.port = loc.preferredPorts[loc.k],
                               !.cont = "fpf_next"]
       ELSE loc' = [loc EXCEPT !.startPort = DefaultBase,
                               !.maxAttempts = DefaultMaxAttempts,
                               !.port = DefaultBase,
                               !.cont = "fap_first"]
    /\ pc' = "listen"
    /\ UNCHANGED <<platform, denied, owner, procs, server, call, log, ret, envLeft>>

\* A loop body that forgets to return the available port.
FPF_NextKeepsGoing ==
    /\ pc = "fpf_next"
    /\ loc' = [loc EXCEPT !.k = loc.k + 1]
    /\ pc' = "fpf_loop"
    /\ UNCHANGED <<platform, denied, owner, procs, server, call, log, ret, envLeft>>

\* if (available) return port
FPF_Next ==
    /\ pc = "fpf_next"
    /\ IF loc.available
       THEN /\ ret' = Return(loc.port)
            /\ pc' = "done"
            /\ UNCHANGED loc
       ELSE /\ loc' = [loc EXCEPT !.k = loc.k + 1]
            /\ pc' = "fpf_loop"
            /\ UNCHANGED ret
    /\ UNCHANGED <<platform, denied, owner, procs, server, call, log, envLeft>>

-----------------------------------------------------------------------------
(* The operating system as killPort sees it *)

ProcNames == <<"node", "python", "ruby", "java">>

Comm(q) == ProcNames[q]

Exists(q) == procs[q].state # "gone"

\* stdout of the listing command (netstat / lsof / ss) filtered for the
\* port: the pid of its listener.  ss and lsof name only the processes the
\* caller may inspect; netstat -ano names every pid.
LookupStdout(port) ==
    LET q == Owner(port) IN
    IF q # Null /\ (platform = "win32" \/ procs[q].permitted)
    THEN <<q>>
    ELSE <<>>

\* getPortPid: the first pid of the output; null when nothing matched or
\* the command failed (it exits non-zero on an empty result).
GetPortPid(port) ==
    IF LookupStdout(port) = <<>> THEN Null ELSE Head(LookupStdout(port))

\* tasklist / ps -o comm= for the pid; 'Unknown' when the command fails or
\* prints nothing.
GetProcessName(pid) ==
    IF Exists(pid)
    THEN Comm(pid)
    ELSE IF platform = "win32"
         THEN "INFO: No tasks are running which match the specified criteria."
         ELSE "Unknown"

\* What the user may type at the prompt.
Answers == {"y", "Y", "yes", "YES", "n", "", "yeah", "y "}

ToLowerCase(a) ==
    CASE a = "Y" -> "y"
      [] a = "YES" -> "yes"
      [] OTHER -> a

\* answer.toLowerCase() === 'y' || answer.toLowerCase() === 'yes'
AskConfirmation(answer) ==
    ToLowerCase(answer) = "y" \/ ToLowerCase(answer) = "yes"

\* The shell command that delivers a signal.
KillCommand(sig, pid) ==
    CASE sig = "taskkill" -> "taskkill /PID " \o ToString(pid) \o " /F"
      [] sig = "SIGTERM" -> "kill -TERM " \o ToString(pid)
      [] sig = "SIGKILL" -> "kill -9 " \o ToString(pid)

\* error.message of a rejected execPromise.
ExecError(command) == "Command failed: " \o command

\* The command can succeed only on a process that exists and that the
\* caller may signal.
Deliverable(pid) == Exists(pid) /\ procs[pid].permitted

\* The process table after a delivered signal: SIGTERM is ignored by a
\* process that traps it, every other signal makes the process exit, which
\* it does some time later (ProcExit).
Signalled(sig, pid) ==
    IF sig = "SIGTERM" /\ procs[pid].ignoresTerm
    THEN procs
    ELSE [procs EXCEPT ![pid].state = "dying"]

-----------------------------------------------------------------------------
(* killPort(port, force) *)

Undefined == "undefined"

MsgNoProcess == "No process found on this port"
MsgCancelled == "Cancelled by user"
MsgStillRunning == "Process may still be running"
MsgKilled == "Process killed successfully"

\* "Nothing to kill" reported as a successful kill.
NotInUseAsKilled ==
    [success |-> TRUE, message |-> "Process killed successfully", pid |-> Null, name |-> "undefined"]

NotInUseResult ==
    [success |-> FALSE, message |-> MsgNoProcess, pid |-> Null, name |-> Undefined]

CancelledResult ==
    [success |-> FALSE, message |-> MsgCancelled, pid |-> Null, name |-> Undefined]

\* A catch block that reports the fixed "still running" text.
FailedAsStillRunning(message, pid, processName) ==
    [success |-> FALSE, message |-> MsgStillRunning, pid |-> pid, name |-> processName]

FailedResult(message, pid, processName) ==
    [success |-> FALSE, message |-> message, pid |-> pid, name |-> processName]

\* A verification that trusts the signal.
VerifyTrustingSignal(stillInUse, pid, processName) ==
    [success |-> TRUE, message |-> MsgKilled, pid |-> pid, name |-> processName]

\* A result that names the process the re-probe found.
VerifyNamingNewOwner(stillInUse, pid, processName) ==
    IF stillInUse # Null
    THEN [success |-> FALSE, message |-> MsgStillRunning, pid |-> stillInUse, name |-> processName]
    ELSE [success |-> TRUE, message |-> MsgKilled, pid |-> pid, name |-> processName]

\* if (stillInUse) {success: false, ...} else {success: true, ...}
VerifyResult(stillInUse, pid, processName) ==
    IF stillInUse # Null
    THEN [success |-> FALSE, message |-> MsgStillRunning, pid |-> pid, name |-> processName]
    ELSE [success |-> TRUE, message |-> MsgKilled, pid |-> pid, name |-> processName]

\* Entry of killPort.
KillPort ==
    /\ pc = "start"
    /\ call.name = "killPort"
    /\ loc' = [loc EXCEPT !.port = call.port, !.force = call.force]
    /\ pc' = "kp_lookup"
    /\ UNCHANGED <<platform, denied, owner, procs, server, call, log, ret, envLeft>>

\* const pid = await this.getPortPid(port); if (!pid) return {...}
KP_Lookup ==
    /\ pc = "kp_lookup"
    /\ LET pid == GetPortPid(loc.port) IN
        /\ log' = Append(log, Event("lookup", loc.port, pid, pid # Null))
        /\ IF pid = Null
           THEN /\ loc' = [loc EXCEPT !.pid = pid, !.result = NotInUseResult]
                /\ pc' = "kp_return"
           ELSE /\ loc' = [loc EXCEPT !.pid = pid]
                /\ pc' = "kp_name"
    /\ UNCHANGED <<platform, denied, owner, procs, server, call, ret, envLeft>>

\* The process name is read; then, unless force is set, the prompt is shown.
KP_Name ==
    /\ pc = "kp_name"
    /\ loc' = [loc EXCEPT !.processName = GetProcessName(loc.pid)]
    /\ pc' = IF ~loc.force THEN "kp_confirm" ELSE "kp_kill"
    /\ UNCHANGED <<platform, denied, owner, procs, server, call, log, ret, envLeft>>

\* A prompt whose answer is not looked at.
KP_ConfirmIgnored ==
    /\ pc = "kp_confirm"
    /\ \E answer \in Answers :
        LET confirmed == AskConfirmation(answer) IN
        /\ log' = Append(log, Event("ask", loc.port, loc.pid, confirmed))
        /\ loc' = [loc EXCEPT !.confirmed = confirmed]
        /\ pc' = "kp_kill"
    /\ UNCHANGED <<platform, denied, owner, procs, server, call, ret, envLeft>>

\* The answer to askConfirmation arrives; if (!confirmed) return {...}
KP_Confirm ==
    /\ pc = "kp_confirm"
    /\ \E answer \in Answers :
        LET confirmed == AskConfirmation(answer) IN
        /\ log' = Append(log, Event("ask", loc.port, loc.pid, confirmed))
        /\ IF ~confirmed
           THEN /\ loc' = [loc EXCEPT !.confirmed = confirmed, !.result = CancelledResult]
                /\ pc' = "kp_return"
           ELSE /\ loc' = [loc EXCEPT !.confirmed = confirmed]
                /\ pc' = "kp_kill"
    /\ UNCHANGED <<platform, denied, owner, procs, server, call, ret, envLeft>>

\* What an exec of a signal command can do: deliver the signal, or fail
\* (always when the signal is not deliverable, and for a transient reason
\* while the environment has changes left).
\* ok = TRUE: delivered.
SendSignal(sig, pid, ok) ==
    /\ ok => Deliverable(pid)
    /\ (~ok /\ Deliverable(pid)) => envLeft > 0
    /\ log' = Append(log, Event(sig, loc.port, pid, ok))
    /\ procs' = IF ok THEN Signalled(sig, pid) ELSE procs
    /\ envLeft' = IF ~ok /\ Deliverable(pid) THEN envLeft - 1 ELSE envLeft

\* A resolver that starts with the forceful signal everywhere.
FirstSignalForceful == IF platform = "win32" THEN "taskkill" ELSE "SIGKILL"

\* The first signal on this platform.
FirstSignal == IF platform = "win32" THEN "taskkill" ELSE "SIGTERM"

\* taskkill /F on win32; kill -TERM elsewhere, whose failure leads to kill -9.
KP_Kill ==
    /\ pc = "kp_kill"
    /\ \E ok \in BOOLEAN :
        /\ SendSignal(FirstSignal, loc.pid, ok)
        /\ IF ok
           THEN /\ pc' = "kp_delay"
                /\ UNCHANGED loc
           ELSE IF platform = "win32"
           THEN /\ loc' = [loc EXCEPT !.result =
                        FailedResult(ExecError(KillCommand(FirstSignal, loc.pid)),
                                     loc.pid, loc.processName)]
                /\ pc' = "kp_return"
           ELSE /\ pc' = "kp_kill9"
                /\ UNCHANGED loc
    /\ UNCHANGED <<platform, denied, owner, server, call, ret>>

\* catch (error) { await execPromise(`kill -9 ${pid}`) }; its failure is
\* caught by the outer catch.
KP_Kill9 ==
    /\ pc = "kp_kill9"
    /\ \E ok \in BOOLEAN :
        /\ SendSignal("SIGKILL", loc.pid, ok)
        /\ IF ok
           THEN /\ pc' = "kp_delay"
                /\ UNCHANGED loc
           ELSE /\ loc' = [loc EXCEPT !.result =
                        FailedResult(ExecError(KillCommand("SIGKILL", loc.pid)),
                                     loc.pid, loc.processName)]
                /\ pc' = "kp_return"
    /\ UNCHANGED <<platform, denied, owner, server, call, ret>>

\* await this.delay(500)
KP_Delay ==
    /\ pc = "kp_delay"
    /\ log' = Append(log, Event("delay", loc.port, loc.pid, TRUE))
    /\ pc' = "kp_verify"
    /\ UNCHANGED <<platform, denied, owner, procs, server, call, loc, ret, envLeft>>

\* const stillInUse = await this.getPortPid(port); the result follows it.
KP_Verify ==
    /\ pc = "kp_verify"
    /\ LET stillInUse == GetPortPid(loc.port) IN
        /\ log' = Append(log, Event("verify", loc.port, stillInUse, stillInUse # Null))
        /\ loc' = [loc EXCEPT !.stillInUse = stillInUse,
                              !.result = VerifyResult(stillInUse, loc.pid, loc.processName)]
    /\ pc' = "kp_return"
    /\ UNCHANGED <<platform, denied, owner, procs, server, call, ret, envLeft>>

\* killPort called by the user: its result is the result of the call.
KP_Return ==
    /\ pc = "kp_return"
    /\ call.name = "killPort"
    /\ ret' = Return(loc.result)
    /\ pc' = "done"
    /\ UNCHANGED <<platform, denied, owner, procs, server, call, loc, log, envLeft>>

-----------------------------------------------------------------------------
(* killPorts(ports, force) *)

\* Entry of killPorts: const results = [].
KillPorts ==
    /\ pc = "start"
    /\ call.name = "killPorts"
    /\ loc' = [loc EXCEPT !.ports = call.ports, !.force = call.force,
                          !.idx = 1, !.results = <<>>]
    /\ pc' = "kps_loop"
    /\ UNCHANGED <<platform, denied, owner, procs, server, call, log, ret, envLeft>>

\* for (const port of ports): killPort(port, force) is called with fresh
\* locals; after the last port the results are returned.
KPS_Loop ==
    /\ pc = "kps_loop"
    /\ IF loc.idx <= Len(loc.ports)
       THEN /\ loc' = [loc EXCEPT !.port = loc.ports[loc.idx],
                                 !.pid = Null, !.processName = "",
                                 !.confirmed = FALSE, !.stillInUse = Null,
                                 !.result = <<>>]
            /\ pc' = "kp_lookup"
            /\ UNCHANGED ret
       ELSE /\ ret' = Return(loc.results)
            /\ pc' = "done"
            /\ UNCHANGED loc
    /\ UNCHANGED <<platform, denied, owner, procs, server, call, log, envLeft>>

\* A loop that gives up at the first port that was not freed.
KPS_PushStopsOnFailure ==
    /\ pc = "kp_return"
    /\ call.name = "killPorts"
    /\ loc' = [loc EXCEPT !.results = Append(loc.results, [port |-> loc.port] @@ loc.result),
                          !.idx = IF loc.result.success THEN loc.idx + 1
                                  ELSE Len(loc.ports) + 1]
    /\ pc' = "kps_loop"
    /\ UNCHANGED <<platform, denied, owner, procs, server, call, log, ret, envLeft>>

\* results.push({ port, ...result })
KPS_Push ==
    /\ pc = "kp_return"
    /\ call.name = "killPorts"
    /\ loc' = [loc EXCEPT !.results = Append(loc.results, [port |-> loc.port] @@ loc.result),
                          !.idx = loc.idx + 1]
    /\ pc' = "kps_loop"
    /\ UNCHANGED <<platform, denied, owner, procs, server, call, log, ret, envLeft>>

-----------------------------------------------------------------------------
(* The environment: other processes bind and release ports, and exit, while *)
(* the call waits for an OS call, a prompt or a timer.  A change shows only *)
(* when the call looks at what changed, so the model makes the changes that *)
(* touch the port or the process the call is waiting on: a change elsewhere *)
(* commutes with the call's steps until the call gets there.                *)

Waiting ==
    pc \in {"listen", "kp_lookup", "kp_name", "kp_confirm", "kp_kill",
            "kp_kill9", "kp_delay", "kp_verify"}

EnvBind ==
    /\ Waiting
    /\ envLeft > 0
    /\ loc.port \in DOMAIN owner
    /\ owner[loc.port] = Null
    /\ \E q \in Pids :
        /\ Exists(q)
        /\ owner' = [owner EXCEPT ![loc.port] = q]
    /\ envLeft' = envLeft - 1
    /\ UNCHANGED <<platform, denied, procs, server, call, pc, loc, log, ret>>

EnvRelease ==
    /\ Waiting
    /\ envLeft > 0
    /\ loc.port \in DOMAIN owner
    /\ owner[loc.port] # Null
    /\ owner' = [owner EXCEPT ![loc.port] = Null]
    /\ envLeft' = envLeft - 1
    /\ UNCHANGED <<platform, denied, procs, server, call, pc, loc, log, ret>>

\* A process exits and its listeners go away: one that was signalled, at
\* any time after the signal; any other, as a change of the environment.
ProcExit ==
    /\ Waiting
    /\ \E q \in Pids :
        /\ Exists(q)
        /\ q = Owner(loc.port) \/ q = loc.pid
        /\ procs[q].state = "dying" \/ envLeft > 0
        /\ procs' = [procs EXCEPT ![q].state = "gone"]
        /\ owner' = [p \in DOMAIN owner |-> IF owner[p] = q THEN Null ELSE owner[p]]
        /\ envLeft' = IF procs[q].state = "dying" THEN envLeft ELSE envLeft - 1
    /\ UNCHANGED <<platform, denied, server, call, pc, loc, log, ret>>

-----------------------------------------------------------------------------
(* Specification of the port search *)

QuietProcs == [q \in Pids |-> [state |-> "running", ignoresTerm |-> FALSE, permitted |-> TRUE]]

NoCall ==
    [name |-> "", startPort |-> Null, maxAttempts |-> 0, framework |-> "",
     port |-> Null, ports |-> <<>>, force |-> FALSE]

\* The search never reads this.platform; the listeners all belong to pid 1.
InitFind ==
    /\ platform = "linux"
    /\ denied = {}
    /\ procs = QuietProcs
    /\ owner \in [FindPorts -> {Null, 1}]
    /\ server = Null
    /\ \E s \in FindPorts, m \in 0..MaxAttemptsBound :
        call = [NoCall EXCEPT !.name = "findAvailablePort",
                              !.startPort = s, !.maxAttempts = m]
    /\ pc = "start"
    /\ loc = NoLoc
    /\ log = <<>>
    /\ ret = NoRet
    /\ envLeft = MaxEnv

NextFind ==
    \/ FindAvailablePort
    \/ FAP_First
    \/ FAP_Loop
    \/ FAP_Next
    \/ Listen
    \/ Close
    \/ EnvBind
    \/ EnvRelease

SpecFind == InitFind /\ [][NextFind]_vars

(* Specification of the bind probe *)

InitProbe ==
    /\ platform = "linux"
    /\ denied \in SUBSET LowWindow
    /\ procs = QuietProcs
    /\ owner \in [LowWindow -> {Null, 1}]
    /\ server = Null
    /\ \E p \in LowWindow :
        call = [NoCall EXCEPT !.name = "isPortAvailable", !.port = p]
    /\ pc = "start"
    /\ loc = NoLoc
    /\ log = <<>>
    /\ ret = NoRet
    /\ envLeft = MaxEnv

NextProbe ==
    \/ IsPortAvailable
    \/ IPA_Resolve
    \/ ProbeAgain
    \/ Listen
    \/ Close
    \/ EnvBind
    \/ EnvRelease

SpecProbe == InitProbe /\ [][NextProbe]_vars

(* Specification of the framework-aware search *)

InitFramework ==
    /\ platform = "linux"
    /\ denied = {}
    /\ procs = QuietProcs
    /\ server = Null
    /\ \E f \in Frameworks \cup {"Unknown"} :
        /\ call = [NoCall EXCEPT !.name = "findPortForFramework", !.framework = f]
        /\ owner \in [Range(PreferredPorts(f)) \cup LowWindow -> {Null, 1}]
    /\ pc = "start"
    /\ loc = NoLoc
    /\ log = <<>>
    /\ ret = NoRet
    /\ envLeft = MaxEnv

NextFramework ==
    \/ FindPortForFramework
    \/ FPF_Loop
    \/ FPF_Next
    \/ FAP_First
    \/ FAP_Loop
    \/ FAP_Next
    \/ Listen
    \/ Close
    \/ EnvBind
    \/ EnvRelease

SpecFramework == InitFramework /\ [][NextFramework]_vars

(* Specification of kill-and-verify *)

KillablePorts == {DefaultBase, DefaultBase + 1}

SeqsUpTo(S, n) == UNION {[1..m -> S] : m \in 0..n}

\* Pids are opaque to the resolver, so the listeners are numbered in the
\* order of their ports.
NumberedInOrder(f) ==
    \A p \in DOMAIN f :
        f[p] # Null =>
            f[p] <= 1 + Cardinality({f[p2] : p2 \in {x \in DOMAIN f : x < p}} \ {Null})

\* Processes that listen on no port start with the default attributes.
InitKillOS ==
    /\ platform \in Platforms
    /\ denied = {}
    /\ owner \in [KillablePorts -> Pids \cup {Null}]
    /\ NumberedInOrder(owner)
    /\ procs \in [Pids -> [state : {"running"}, ignoresTerm : BOOLEAN, permitted : BOOLEAN]]
    /\ \A q \in Pids :
          (\A p \in KillablePorts : owner[p] # q) => procs[q] = QuietProcs[q]
    /\ server = Null
    /\ pc = "start"
    /\ loc = NoLoc
    /\ log = <<>>
    /\ ret = NoRet
    /\ envLeft = MaxEnv

InitKill ==
    /\ InitKillOS
    /\ \/ \E p \in KillablePorts, f \in BOOLEAN :
            call = [NoCall EXCEPT !.name = "killPort", !.port = p, !.force = f]
       \/ \E ps \in SeqsUpTo(KillablePorts, MaxPorts), f \in BOOLEAN :
            call = [NoCall EXCEPT !.name = "killPorts", !.ports = ps, !.force = f]

NextKill ==
    \/ KillPort
    \/ KP_Lookup
    \/ KP_Name
    \/ KP_Confirm
    \/ KP_Kill
    \/ KP_Kill9
    \/ KP_Delay
    \/ KP_Verify
    \/ KP_Return
    \/ KillPorts
    \/ KPS_Loop
    \/ KPS_Push
    \/ EnvBind
    \/ EnvRelease
    \/ ProcExit

SpecKill == InitKill /\ [][NextKill]_vars

(* Specification of the resolver: any one of the calls above *)

Init == InitFind \/ InitFramework \/ InitKill

Next ==
    \/ FindAvailablePort
    \/ FAP_First
    \/ FAP_Loop
    \/ FAP_Next
    \/ FindPortForFramework
    \/ FPF_Loop
    \/ FPF_Next
    \/ Listen
    \/ Close
    \/ KillPort
    \/ KP_Lookup
    \/ KP_Name
    \/ KP_Confirm
    \/ KP_Kill
    \/ KP_Kill9
    \/ KP_Delay
    \/ KP_Verify
    \/ KP_Return
    \/ KillPorts
    \/ KPS_Loop
    \/ KPS_Push
    \/ EnvBind
    \/ EnvRelease
    \/ ProcExit

Spec == Init /\ [][Next]_vars

-----------------------------------------------------------------------------
(* The outcome a caller reads off a killPort result *)

Outcome(r) ==
    IF r.success THEN "Resolved"
    ELSE IF r.message = MsgNoProcess THEN "NotInUse"
    ELSE IF r.message = MsgCancelled THEN "Cancelled"
    ELSE IF r.message = MsgStillRunning THEN "StillRunning"
    ELSE "Failed"




-----------------------------------------------------------------------------
(* Properties of findAvailablePort *)

Probes == SelectSeq(log, LAMBDA e : e.ev = "probe")

Max(a, b) == IF a > b THEN a ELSE b

IsFind == call.name = "findAvailablePort"

\* C4: findAvailablePort probes startPort, startPort+1, ... in increasing
\* order, every probe before the last one reported "not available", it
\* returns exactly when a probe reports "available" and then returns that
\* port; when startPort is available it is returned after one probe.
C4_FirstAvailableInOrder ==
    IsFind =>
        LET P == Probes IN
        /\ \A n \in 1..Len(P) : P[n].port = call.startPort + (n - 1)
        /\ \A n \in 1..(Len(P) - 1) : ~P[n].ok
        /\ (pc = "done" /\ ret.kind = "return") =>
              /\ Len(P) >= 1
              /\ P[Len(P)].ok
              /\ ret.val = P[Len(P)].port
        /\ (pc = "done" /\ Len(P) >= 1 /\ P[Len(P)].ok) => ret.kind = "return"
        /\ (Len(P) >= 1 /\ P[1].ok) =>
              /\ Len(P) = 1
              /\ pc = "done" => ret = Return(call.startPort)

\* A search that passed two occupied ports and returned the third.
C4_Witness ==
    /\ IsFind
    /\ pc = "done"
    /\ ret = Return(call.startPort + 2)
    /\ Len(Probes) = 3

\* C5 as stated: at most maxAttempts probes, all on ports in
\* startPort .. startPort+maxAttempts-1, and a search whose probes all
\* failed ends in the ExhaustedSearch error.
C5_AtMostMaxAttempts ==
    IsFind =>
        LET P == Probes IN
        /\ Len(P) <= call.maxAttempts
        /\ \A n \in 1..Len(P) :
              /\ P[n].port >= call.startPort
              /\ P[n].port <= call.startPort + call.maxAttempts - 1
        /\ (pc = "done" /\ \A n \in 1..Len(P) : ~P[n].ok) =>
              ret = ExhaustedError(call.maxAttempts)

\* C5 amended: the probe of startPort is made whatever maxAttempts is, so
\* the number of probes is at most max(1, maxAttempts), all on ports in
\* startPort .. startPort+max(1, maxAttempts)-1; a search whose probes all
\* failed throws the ExhaustedSearch error, and it throws only after
\* max(1, maxAttempts) failed probes or at the last port number.
C5_AtMostMaxAttemptsOrOne ==
    IsFind =>
        LET P == Probes
            m == Max(1, call.maxAttempts) IN
        /\ Len(P) <= m
        /\ \A n \in 1..Len(P) :
              /\ P[n].port >= call.startPort
              /\ P[n].port <= call.startPort + m - 1
        /\ (pc = "done" /\ \A n \in 1..Len(P) : ~P[n].ok) =>
              ret = ExhaustedError(call.maxAttempts)
        /\ (pc = "done" /\ ret.kind = "throw") =>
              /\ \A n \in 1..Len(P) : ~P[n].ok
              /\ Len(P) = m \/ P[Len(P)].port = MaxPort

\* Exhausted exactly at the limit: three occupied ports, maxAttempts = 3,
\* and the next port, which is free, was not probed.
C5_Witness ==
    /\ IsFind
    /\ pc = "done"
    /\ ret.kind = "throw"
    /\ call.maxAttempts = 3
    /\ Len(Probes) = 3
    /\ Owner(call.startPort + 3) = Null

\* C6: every probed port and every returned port lies in
\* startPort .. 65535, and a search that found port 65535 occupied ends in
\* the ExhaustedSearch error.
C6_NeverOutsidePortRange ==
    IsFind =>
        LET P == Probes IN
        /\ \A n \in 1..Len(P) :
              /\ P[n].port >= call.startPort
              /\ P[n].port <= MaxPort
        /\ (pc = "done" /\ ret.kind = "return") =>
              /\ ret.val >= call.startPort
              /\ ret.val <= MaxPort
        /\ (pc = "done" /\ Len(P) >= 1 /\ P[Len(P)].port = MaxPort /\ ~P[Len(P)].ok) =>
              ret = ExhaustedError(call.maxAttempts)

\* The search ran into port 65535 with attempts to spare and gave up.
C6_Witness ==
    /\ IsFind
    /\ pc = "done"
    /\ ret.kind = "throw"
    /\ call.startPort = MaxPort - 1
    /\ Len(Probes) = 2
    /\ call.maxAttempts > 2

-----------------------------------------------------------------------------
(* Properties of findPortForFramework *)

IsFramework == call.name = "findPortForFramework"

-----------------------------------------------------------------------------
(* Properties of killPort *)

IsKillPort == call.name = "killPort"

SignalNames == {"SIGTERM", "SIGKILL", "taskkill"}

\* The events of the killPort run for the idx-th port (0: killPort called
\* directly).
RunLog(idx) == SelectSeq(log, LAMBDA e : e.idx = idx)

Signals(L) == SelectSeq(L, LAMBDA e : e.ev \in SignalNames)
Asks(L) == SelectSeq(L, LAMBDA e : e.ev = "ask")
Verifies(L) == SelectSeq(L, LAMBDA e : e.ev = "verify")

Last(L) == L[Len(L)]

\* What happened in a finished run, read off its events.
Happened(L) ==
    IF ~L[1].ok THEN "NotInUse"
    ELSE IF Asks(L) # <<>> /\ ~Asks(L)[1].ok THEN "Cancelled"
    ELSE IF ~Last(Signals(L)).ok THEN "Failed"
    ELSE IF Last(Verifies(L)).ok THEN "StillRunning"
    ELSE "Resolved"

\* C1: killPort returns Resolved only when its last three steps were a
\* delivered signal, the grace delay and a re-probe that reported no owner;
\* when the re-probe reports an owner the outcome is StillRunning.
C1_ResolvedOnlyAfterReprobe ==
    (IsKillPort /\ pc = "done") =>
        LET L == log
            n == Len(log)
            V == Verifies(log) IN
        /\ Len(V) <= 1
        /\ (Outcome(ret.val) \in {"Resolved", "StillRunning"}) =>
              /\ n >= 3
              /\ L[n].ev = "verify"
              /\ L[n].port = call.port
              /\ L[n - 1].ev = "delay"
              /\ L[n - 2].ev \in SignalNames
              /\ L[n - 2].ok
        /\ Outcome(ret.val) = "Resolved" => (Len(V) = 1 /\ ~V[1].ok /\ V[1].pid = Null)
        /\ (Len(V) = 1 /\ V[1].ok) => Outcome(ret.val) = "StillRunning"
        /\ (Len(V) = 1 /\ ~V[1].ok) => Outcome(ret.val) = "Resolved"

\* The process ignored a delivered SIGTERM and the call said StillRunning.
C1_Witness ==
    /\ IsKillPort
    /\ pc = "done"
    /\ Outcome(ret.val) = "StillRunning"
    /\ Signals(log) # <<>>
    /\ Last(Signals(log)).ev = "SIGTERM"
    /\ Last(Signals(log)).ok
    /\ procs[ret.val.pid].state = "running"
    /\ procs[ret.val.pid].ignoresTerm

\* C2: killPort prompts exactly when force is false and the lookup found
\* an owner, once; after a declined prompt it returns Cancelled, no signal
\* was sent, and the owner was not made to exit (it still runs and holds
\* the port if the environment did nothing).
C2_DeclinedSendsNothing ==
    IsKillPort =>
        LET A == Asks(log) IN
        /\ Len(A) <= 1
        /\ Len(A) = 1 => (~call.force /\ log[1].ev = "lookup" /\ log[1].ok /\ A[1].pid = log[1].pid)
        /\ (~call.force /\ log # <<>> /\ log[1].ok /\ pc \notin {"kp_name", "kp_confirm"})
              => Len(A) = 1
        /\ (Len(A) = 1 /\ ~A[1].ok) =>
              /\ Signals(log) = <<>>
              /\ Verifies(log) = <<>>
              /\ procs[A[1].pid].state # "dying"
              /\ envLeft = MaxEnv =>
                    (procs[A[1].pid].state = "running" /\ Owner(call.port) = A[1].pid)
              /\ pc \in {"kp_return", "done"}
              /\ pc = "done" => Outcome(ret.val) = "Cancelled"
        /\ (pc = "done" /\ Outcome(ret.val) = "Cancelled") => (Len(A) = 1 /\ ~A[1].ok)

\* The prompt was declined and the owner still listens on the port.
C2_Witness ==
    /\ IsKillPort
    /\ pc = "done"
    /\ Outcome(ret.val) = "Cancelled"
    /\ Owner(call.port) = loc.pid
    /\ procs[loc.pid].state = "running"

\* C3: when the lookup returns no process killPort returns NotInUse and
\* has done nothing else: no prompt, no signal, whatever force is.
C3_NotInUseDoesNothing ==
    IsKillPort =>
        /\ (log # <<>> /\ ~log[1].ok) =>
              /\ Len(log) = 1
              /\ pc \in {"kp_return", "done"}
              /\ pc = "done" => Outcome(ret.val) = "NotInUse"
        /\ (pc = "done" /\ Outcome(ret.val) = "NotInUse") =>
              (log = <<Event("lookup", call.port, Null, FALSE)>>)

\* A forced kill of a free port.
C3_Witness ==
    /\ IsKillPort
    /\ call.force
    /\ pc = "done"
    /\ Outcome(ret.val) = "NotInUse"
    /\ Owner(call.port) = Null

\* C7: signals are sent only after a successful lookup and a confirmation
\* or force; the first one is the graceful one (the forceful taskkill on
\* win32, which has no other), SIGKILL follows only a failed SIGTERM; a
\* call whose last signal failed returns Failed with the exec error text,
\* the pid of the lookup and the process name, and makes no re-probe.
C7_GracefulThenForceful ==
    IsKillPort =>
        LET S == Signals(log) IN
        /\ Len(S) <= 2
        /\ Len(S) >= 1 =>
              /\ log[1].ev = "lookup" /\ log[1].ok
              /\ call.force \/ (Asks(log) # <<>> /\ Asks(log)[1].ok)
              /\ \A n \in 1..Len(S) : S[n].pid = log[1].pid
              /\ S[1].ev = IF platform = "win32" THEN "taskkill" ELSE "SIGTERM"
        /\ Len(S) = 2 =>
              /\ platform # "win32"
              /\ ~S[1].ok
              /\ S[2].ev = "SIGKILL"
        /\ (pc = "done" /\ Len(S) >= 1 /\ ~Last(S).ok) =>
              /\ Outcome(ret.val) = "Failed"
              /\ ret.val.message = ExecError(KillCommand(Last(S).ev, log[1].pid))
              /\ ret.val.pid = log[1].pid
              /\ ret.val.name = loc.processName
              /\ ret.val.name # Undefined
              /\ Verifies(log) = <<>>
              /\ platform # "win32" => Len(S) = 2
        /\ (pc = "done" /\ Outcome(ret.val) = "Failed") => (Len(S) >= 1 /\ ~Last(S).ok)

\* SIGTERM failed, SIGKILL failed, and the call returned Failed.
C7_Witness ==
    /\ IsKillPort
    /\ pc = "done"
    /\ Outcome(ret.val) = "Failed"
    /\ Len(Signals(log)) = 2
    /\ ret.val.pid \in Pids

\* C8 as stated: no call ends by throwing.
C8_NothingThrown ==
    pc = "done" => ret.kind = "return"

\* C8 amended: killPort and killPorts always return, and each result reads
\* as the one of NotInUse, Cancelled, StillRunning, Failed, Resolved that
\* happened; findAvailablePort and findPortForFramework report
\* ExhaustedSearch by throwing an Error, and throw nothing else.
C8_KillReturnsSearchThrows ==
    pc = "done" =>
        /\ call.name = "killPort" =>
              /\ ret.kind = "return"
              /\ Outcome(ret.val) = Happened(log)
        /\ call.name = "killPorts" =>
              /\ ret.kind = "return"
              /\ \A n \in 1..Len(ret.val) : Outcome(ret.val[n]) = Happened(RunLog(n))
        /\ call.name \in {"findAvailablePort", "findPortForFramework"} =>
              /\ ret.kind = "throw" <=> ~Last(Probes).ok
              /\ ret.kind = "throw" => ret = ExhaustedError(loc.maxAttempts)

\* A search that ended in the thrown error.
C8_Witness ==
    /\ pc = "done"
    /\ IsFind
    /\ ret = ExhaustedError(call.maxAttempts)
    /\ Len(Probes) >= 2

-----------------------------------------------------------------------------
(* Properties of killPorts *)

IsKillPorts == call.name = "killPorts"

\* C9: killPorts runs killPort for the ports in input order, one after the
\* other: the events of the run for one port all come before those for the
\* next; every run starts with the lookup of its port, each port gets one
\* run whatever the earlier results were, and the results are one per
\* port, in order, each the result of that port's run.
C9_OneResultPerPortInOrder ==
    IsKillPorts =>
        /\ \A n \in 1..(Len(log) - 1) : log[n].idx <= log[n + 1].idx
        /\ \A n \in 1..Len(log) :
              /\ log[n].idx \in 1..Len(call.ports)
              /\ log[n].port = call.ports[log[n].idx]
        /\ \A i \in 1..Len(call.ports) :
              LET L == RunLog(i) IN
              /\ L # <<>> =>
                    /\ L[1].ev = "lookup"
                    /\ \A n \in 2..Len(L) : L[n].ev # "lookup"
              /\ (i < loc.idx \/ pc = "done") => L # <<>>
        /\ Len(loc.results) <= Len(call.ports)
        /\ \A i \in 1..Len(loc.results) :
              /\ loc.results[i].port = call.ports[i]
              /\ Outcome(loc.results[i]) = Happened(RunLog(i))
        /\ pc = "done" =>
              /\ ret = Return(loc.results)
              /\ Len(ret.val) = Len(call.ports)

\* The first port's kill failed and the second port was still freed.
C9_Witness ==
    /\ IsKillPorts
    /\ pc = "done"
    /\ Len(ret.val) = 2
    /\ Outcome(ret.val[1]) = "Failed"
    /\ Outcome(ret.val[2]) = "Resolved"

-----------------------------------------------------------------------------
(* Properties of isPortAvailable *)

IsProbeCall == call.name = "isPortAvailable"

\* The ports some socket is bound to, the probe's own included.
BoundPorts ==
    {p \in DOMAIN owner : owner[p] # Null} \cup ({server} \ {Null})

\* The probe holds a socket only between listen and close, and with no
\* change by the environment every probe of a port that was found
\* available finds it available again.
C11_Released ==
    IsProbeCall =>
        /\ server # Null => pc = "close"
        /\ pc = "done" => (server = Null /\ ret.kind = "return")
        /\ envLeft = MaxEnv =>
              \A n \in 1..Len(Probes), m \in 1..Len(Probes) :
                  (n < m /\ Probes[n].port = Probes[m].port /\ Probes[n].ok)
                      => Probes[m].ok

\* The steps of the probe change the set of bound ports only by binding
\* the probed port at listen and releasing it in the step that resolves
\* true; a new call changes nothing.
C11_Frame ==
    IsProbeCall =>
        /\ (pc = "listen" /\ pc' = "close") =>
              BoundPorts' = BoundPorts \cup {loc.port}
        /\ pc = "close" =>
              /\ BoundPorts' = BoundPorts \ {loc.port}
              /\ server' = Null
              /\ loc'.available
        /\ (envLeft' = envLeft /\ pc # "close" /\ pc' # "close") =>
              BoundPorts' = BoundPorts

\* C11: isPortAvailable is non-destructive and repeatable: when it returns
\* true its socket is already released, the bound ports after the call are
\* those before it, and a second call right after it returns true too.
C11_NonDestructiveRepeatable ==
    []C11_Released /\ [][C11_Frame]_vars

\* Two calls in a row on a free port, both true, nothing left bound by
\* the probe.
C11_Witness ==
    /\ IsProbeCall
    /\ pc = "done"
    /\ envLeft = MaxEnv
    /\ Len(Probes) = 2
    /\ Probes[1].port = Probes[2].port
    /\ Probes[1].ok /\ Probes[2].ok
    /\ ret = Return(TRUE)
    /\ server = Null

\* C12: the answer of isPortAvailable is the state of the socket table
\* when the call was made: false when a listener is bound to the port or
\* the bind is refused for another reason (EACCES), true otherwise, also
\* after an earlier call gave the other answer; the call never throws.
C12_ReflectsCurrentState ==
    IsProbeCall =>
        LET free(p) == Owner(p) = Null /\ p \notin denied IN
        /\ ret.kind # "throw"
        /\ pc = "ipa_resolve" => (loc.available <=> free(loc.port))
        /\ pc = "done" =>
              /\ ret.kind = "return"
              /\ ret.val <=> free(call.port)
              /\ Last(Probes).port = call.port
              /\ Last(Probes).ok = ret.val
        /\ \A n \in 1..Len(Probes) :
              Probes[n].port \in denied => ~Probes[n].ok

\* The port had a listener and the probe said false; the listener was
\* closed and the next probe of the port said true.
C12_Witness ==
    /\ IsProbeCall
    /\ pc = "done"
    /\ Len(Probes) = 2
    /\ Probes[1].port = Probes[2].port
    /\ ~Probes[1].ok
    /\ Probes[2].ok
    /\ ret = Return(TRUE)

-----------------------------------------------------------------------------
(* Property of one killPort run, called directly or from killPorts *)

InKillRun == pc \in {"kp_name", "kp_confirm", "kp_kill", "kp_kill9",
                     "kp_delay", "kp_verify", "kp_return"}

\* C13: in a killPort run every signal goes to the pid its first lookup
\* returned, whoever owns the port by then; the run sends at most one
\* graceful and at most one forceful signal, and a result that carries a
\* pid carries that pid.
C13_SignalsFirstLookupPid ==
    (call.name \in {"killPort", "killPorts"} /\ InKillRun) =>
        LET L == RunLog(loc.idx)
            S == Signals(L) IN
        /\ L[1].ev = "lookup"
        /\ loc.pid = L[1].pid
        /\ \A n \in 1..Len(S) : S[n].pid = L[1].pid
        /\ Len(SelectSeq(S, LAMBDA e : e.ev = "SIGTERM")) <= 1
        /\ Len(SelectSeq(S, LAMBDA e : e.ev \in {"SIGKILL", "taskkill"})) <= 1
        /\ (pc = "kp_return" /\ L[1].ok /\ Outcome(loc.result) # "Cancelled") =>
              loc.result.pid = L[1].pid
        /\ (pc = "kp_return" /\ loc.result.pid # Null) =>
              loc.result.pid = L[1].pid

\* The signalled process exited, another process took the port during the
\* grace delay, and the result still names the process that was signalled.
C13_Witness ==
    /\ call.name = "killPort"
    /\ pc = "kp_return"
    /\ Signals(log) # <<>>
    /\ Last(Signals(log)).ok
    /\ Last(Signals(log)).pid = log[1].pid
    /\ Verifies(log) # <<>>
    /\ Verifies(log)[1].pid \notin {Null, log[1].pid}
    /\ loc.result.pid = log[1].pid

=============================================================================
